---- MODULE Spec2Model ----
(***************************************************************************)
(* R4DCB08 temperature collector client (r4dcb08_cli.py) and the basic     *)
(* example script (modbus_py.py).                                          *)
(*                                                                         *)
(* Three specifications share the variables below:                         *)
(*   SpecCodec  the register codec, decode_temperature/encode_temperature, *)
(*              applied to every 16-bit register and every tenth of a      *)
(*              degree in the model's span;                                *)
(*   Spec       one R4DCB08Client instance driven by an arbitrary caller;  *)
(*   SpecMain   one run of the CLI main() or of the example's main().      *)
(***************************************************************************)
EXTENDS Integers, Sequences, FiniteSets, TLC

VARIABLES
    codecArg,   \* SpecCodec: the argument handed to the codec
    codecRes,   \* SpecCodec: what the codec returned for it
    address,    \* R4DCB08Client.address
    client,     \* R4DCB08Client.client: "None" or "ModbusClient"
    portOpen,   \* whether the serial port of the handle in self.client is open
    orphans,    \* handles with an open port that self.client no longer names
    txCount,    \* register transactions handed to the transport so far
    validConn,  \* invocations on a Connected client that passed validation
    txConn,     \* register transactions issued by those invocations
    last,       \* the last client operation: arguments, transaction, outcome
    pc,         \* SpecMain: position in main()
    args,       \* SpecMain: the parsed command line
    exitCode    \* SpecMain: main()'s return value

codecVars  == <<codecArg, codecRes>>
clientVars == <<address, client, portOpen, orphans, txCount, validConn, txConn, last>>
mainVars   == <<pc, args, exitCode>>
vars       == <<codecArg, codecRes, address, client, portOpen, orphans, txCount,
                validConn, txConn, last, pc, args, exitCode>>

(***************************************************************************)
(* Bounds of the model.                                                    *)
(***************************************************************************)
\* the codec is fed t/10.0 for every |t| <= MaxTenths
MaxTenths == 3300
\* register transactions per run of Spec
MaxTx == 2
\* open handles that reconnecting may leave behind
MaxOrphans == 1

(***************************************************************************)
(* Python floats: IEEE-754 binary64, round to nearest, ties to even.       *)
(* A float is [tag, sgn, exp, hi, lo]: its value is                        *)
(*   (-1)^sgn * (hi * 2^26 + lo) * 2^(exp - 52)                            *)
(* with the 53-bit significand split into hi (27 bits, 2^26 <= hi < 2^27)  *)
(* and lo (26 bits); zero has hi = lo = 0.                                 *)
(***************************************************************************)
TwoP26 == 2^26
TwoP27 == 2^27

None == [tag |-> "None"]

FZero == [tag |-> "float", sgn |-> 0, exp |-> 0, hi |-> 0, lo |-> 0]

Abs(n) == IF n < 0 THEN -n ELSE n

\* The significand (hi, lo) incremented by up \in {0, 1}, renormalised.
FRound(sgn, exp, hi, lo, up) ==
    LET lo1 == lo + up
        hi1 == IF lo1 = TwoP26 THEN hi + 1 ELSE hi
        lo2 == IF lo1 = TwoP26 THEN 0 ELSE lo1
    IN  IF hi1 = TwoP27
        THEN [tag |-> "float", sgn |-> sgn, exp |-> exp + 1, hi |-> TwoP26, lo |-> 0]
        ELSE [tag |-> "float", sgn |-> sgn, exp |-> exp, hi |-> hi1, lo |-> lo2]

\* The least s with (a * 2^s) \div 10 >= 2^26, for a >= 1.
RECURSIVE NormShift(_, _)
NormShift(a, s) ==
    IF (a * 2^s) \div 10 >= TwoP26 THEN s ELSE NormShift(a, s + 1)

\* Round to nearest, ties to even: whether a significand whose dropped part
\* is rem out of unit is rounded up.
RoundsUp(lo, rem, unit) ==
    2 * rem > unit \/ (2 * rem = unit /\ lo % 2 = 1)

\* n / 10.0 for a Python int n with |n| <= 65536: the binary64 nearest n/10.
\* It is also the value of the decimal literal with the digits of n and one
\* decimal place (327.6 is FDiv10(3276)).
FDiv10(n) ==
    IF n = 0 THEN FZero
    ELSE LET a   == Abs(n)
             s   == NormShift(a, 0)
             num == a * 2^s
             hi  == num \div 10
             r1  == num % 10
             lo  == (r1 * TwoP26) \div 10
             r2  == (r1 * TwoP26) % 10
         IN  FRound(IF n < 0 THEN 1 ELSE 0, 26 - s, hi, lo,
                    IF RoundsUp(lo, r2, 10) THEN 1 ELSE 0)

\* x * 10 for a float x: the exact product, rounded once.
FMul10(x) ==
    IF x.hi = 0 THEN x
    ELSE LET L    == x.lo * 10
             H    == x.hi * 10 + (L \div TwoP26)
             k    == IF H >= 2^30 THEN 4 ELSE 3
             rest == (H % 2^k) * TwoP26 + (L % TwoP26)
             lo   == rest \div 2^k
         IN  FRound(x.sgn, x.exp + k, H \div 2^k, lo,
                    IF RoundsUp(lo, rest % 2^k, 2^k) THEN 1 ELSE 0)

\* int(x): truncation toward zero (|x| < 2^30).
FTrunc(x) ==
    LET mag == IF x.hi = 0 \/ x.exp < 0 THEN 0
               ELSE IF x.exp <= 26 THEN x.hi \div 2^(26 - x.exp)
               ELSE x.hi * 2^(x.exp - 26) + (x.lo \div 2^(52 - x.exp))
    IN  IF x.sgn = 1 THEN -mag ELSE mag

\* |a| < |b|
FMagLT(a, b) ==
    IF b.hi = 0 THEN FALSE
    ELSE IF a.hi = 0 THEN TRUE
    ELSE \/ a.exp < b.exp
         \/ a.exp = b.exp /\ a.hi < b.hi
         \/ a.exp = b.exp /\ a.hi = b.hi /\ a.lo < b.lo

\* a <= b
FLE(a, b) ==
    IF a.hi = 0 /\ b.hi = 0 THEN TRUE
    ELSE IF a.sgn = 1 /\ b.sgn = 0 THEN TRUE
    ELSE IF a.sgn = 0 /\ b.sgn = 1 THEN FALSE
    ELSE IF a.sgn = 0 THEN ~FMagLT(b, a)
    ELSE ~FMagLT(a, b)

(***************************************************************************)
(* Register codec.                                                         *)
(***************************************************************************)
\* R4DCB08Client.decode_temperature
decode_temperature_no_sentinel(raw_value) ==
    LET signed_value == IF raw_value > 32767 THEN raw_value - 65536 ELSE raw_value
    IN  FDiv10(signed_value)
decode_temperature(raw_value) ==
    IF raw_value = 32768 THEN None
    ELSE LET signed_value == IF raw_value > 32767 THEN raw_value - 65536
                             ELSE raw_value
         IN  FDiv10(signed_value)

\* decode_temperature of modbus_py.py
decode_temperature_example(raw_value) ==
    IF raw_value = 32768 THEN None
    ELSE LET signed_value == IF raw_value > 32767 THEN raw_value - 65536
                             ELSE raw_value
         IN  FDiv10(signed_value)

\* R4DCB08Client.encode_temperature
encode_temperature_signed(temperature) == FTrunc(FMul10(temperature))
encode_temperature(temperature) ==
    LET raw_value == FTrunc(FMul10(temperature))
    IN  IF raw_value < 0 THEN raw_value + 65536 ELSE raw_value

(***************************************************************************)
(* SpecCodec: the codec applied to each input of its domain.               *)
(***************************************************************************)
Registers == 0..65535

\* No operation invoked yet.
NoOp ==
    [op |-> "none", channel |-> 0, correction |-> FZero,
     pre |-> [client |-> "None", portOpen |-> FALSE],
     tx |-> [fn |-> "none", addr |-> 0, count |-> 0, value |-> 0, dev |-> 0],
     ntx |-> 0, reply |-> [outcome |-> "none", registers |-> <<>>],
     result |-> [kind |-> "none", value |-> None, cause |-> "none"]]

ClientIdle ==
    /\ address = 1
    /\ client = "None"
    /\ portOpen = FALSE
    /\ orphans = 0
    /\ txCount = 0
    /\ validConn = 0
    /\ txConn = 0
    /\ last = NoOp

MainIdle ==
    /\ pc = "idle"
    /\ args = [script |-> "none", command |-> "none", address |-> 1,
               channel |-> 0, correction |-> 0]
    /\ exitCode = -1

InitCodec ==
    /\ codecArg \in [kind : {"raw"}, v : Registers]
                    \cup [kind : {"tenths"}, v : (-MaxTenths)..MaxTenths]
    /\ codecRes = [kind |-> "pending"]
    /\ ClientIdle
    /\ MainIdle

\* decode_temperature(raw), by the client's static method and by the example's
\* function.
CodecDecode ==
    /\ codecArg.kind = "raw"
    /\ codecRes.kind = "pending"
    /\ codecRes' = [kind |-> "decoded",
                    value |-> decode_temperature(codecArg.v),
                    example |-> decode_temperature_example(codecArg.v)]
    /\ UNCHANGED <<codecArg, clientVars, mainVars>>

\* encode_temperature(t / 10.0), and decode_temperature of what it returned.
CodecEncode ==
    /\ codecArg.kind = "tenths"
    /\ codecRes.kind = "pending"
    /\ LET x == FDiv10(codecArg.v)
           raw == encode_temperature(x)
       IN  codecRes' = [kind |-> "encoded", x |-> x, raw |-> raw,
                        back |-> IF raw \in Registers THEN decode_temperature(raw)
                                 ELSE None]
    /\ UNCHANGED <<codecArg, clientVars, mainVars>>

NextCodec == CodecDecode \/ CodecEncode

SpecCodec == InitCodec /\ [][NextCodec]_vars

(***************************************************************************)
(* The transport (pymodbus ModbusSerialClient), seen from the client: each *)
(* register transaction is answered with registers (as many as asked for,  *)
(* or one fewer from a device that answers short), with an error response  *)
(* (isError()), or by raising; a handle whose port is not open raises.     *)
(***************************************************************************)
Pattern == <<250, 32768, 65486, 0, 32767, 65535, 1, 32769>>
ScenarioA == <<250, 32768, 65486, 0, 0, 0, 0, 0>>

\* The register blocks a device may answer a read of count registers with.
RegisterBlocks(count) ==
    {[i \in 1..count |-> Pattern[((i + k - 1) % 8) + 1]] : k \in 0..3}
        \cup {[i \in 1..count |-> ScenarioA[i]]}
        \cup {[i \in 1..(count - 1) |-> Pattern[i]]}

NoRegisters == <<>>

ReadReplies(count) ==
    IF portOpen
    THEN [outcome : {"ok"}, registers : RegisterBlocks(count)]
             \cup [outcome : {"isError", "raises"}, registers : {NoRegisters}]
    ELSE [outcome : {"raises"}, registers : {NoRegisters}]

WriteReplies ==
    IF portOpen
    THEN [outcome : {"ok", "isError", "raises"}, registers : {NoRegisters}]
    ELSE [outcome : {"raises"}, registers : {NoRegisters}]

(***************************************************************************)
(* R4DCB08Client.                                                          *)
(***************************************************************************)
Pre == [client |-> client, portOpen |-> portOpen]
Conn(p) == p.client # "None" /\ p.portOpen
Connected == Conn(Pre)

NoTx == [fn |-> "none", addr |-> 0, count |-> 0, value |-> 0, dev |-> 0]
ReadTx(addr, count) ==
    [fn |-> "read_holding_registers", addr |-> addr, count |-> count,
     value |-> 0, dev |-> address]
WriteTx(addr, value) ==
    [fn |-> "write_register", addr |-> addr, count |-> 1, value |-> value,
     dev |-> address]

\* self.client.<fn>(..., device_id=self.address) inside an operation's try:
\* an AttributeError when self.client is None, one call of the transport
\* otherwise.
CallRetrying(tx, reply) ==
    IF client = "None"
    THEN [tx |-> NoTx, ntx |-> 0, outcome |-> "AttributeError",
          registers |-> NoRegisters]
    ELSE [tx |-> tx, ntx |-> IF reply.outcome = "ok" THEN 1 ELSE 2,
          outcome |-> reply.outcome, registers |-> reply.registers]
Call(tx, reply) ==
    IF client = "None"
    THEN [tx |-> NoTx, ntx |-> 0, outcome |-> "AttributeError",
          registers |-> NoRegisters]
    ELSE [tx |-> tx, ntx |-> 1, outcome |-> reply.outcome,
          registers |-> reply.registers]

NotCalled == [tx |-> NoTx, ntx |-> 0, outcome |-> "none", registers |-> NoRegisters]

Return(v) == [kind |-> "return", value |-> v, cause |-> "none"]
\* raise ValueError(...) / raise Exception(f"...: {e}")
Raise(kind, cause) == [kind |-> kind, value |-> None, cause |-> cause]

\* The record of one invocation: what was asked, the state it was asked in,
\* the transaction handed to the transport, its answer and the outcome.
Invocation(op, channel, correction, c, result) ==
    [op |-> op, channel |-> channel, correction |-> correction, pre |-> Pre,
     tx |-> c.tx, ntx |-> c.ntx,
     reply |-> [outcome |-> c.outcome, registers |-> c.registers],
     result |-> result]

\* [self.decode_temperature(raw) for raw in result.registers]
DecodeAllReversed(registers) ==
    [i \in 1..Len(registers) |->
        decode_temperature(registers[Len(registers) + 1 - i])]
DecodeAll(registers) ==
    [i \in 1..Len(registers) |-> decode_temperature(registers[i])]

\* 0 <= channel <= 7
ValidChannelOffByOne(channel) == 0 <= channel /\ channel <= 8
ValidChannel(channel) == 0 <= channel /\ channel <= 7

\* The literals -327.6 and 327.6
CorrectionMin == FDiv10(-3276)
CorrectionMax == FDiv10(3276)

\* -327.6 <= correction <= 327.6
ValidCorrection(correction) ==
    FLE(CorrectionMin, correction) /\ FLE(correction, CorrectionMax)

\* correction_register = 0x0008 + channel
CorrectionRegisterNoBase(channel) == channel
CorrectionRegister(channel) == 8 + channel

read_all_temperatures(reply) ==
    LET c == Call(ReadTx(0, 8), reply)
    IN  Invocation("read_all_temperatures", 0, FZero, c,
            IF c.outcome = "ok" THEN Return(DecodeAll(c.registers))
            ELSE Raise("Exception", c.outcome))

read_single_temperature(channel, reply) ==
    IF ~ValidChannel(channel)
    THEN Invocation("read_single_temperature", channel, FZero, NotCalled,
                    Raise("ValueError", "channel"))
    ELSE LET c == Call(ReadTx(channel, 1), reply)
         IN  Invocation("read_single_temperature", channel, FZero, c,
                 IF c.outcome # "ok" THEN Raise("Exception", c.outcome)
                 ELSE IF Len(c.registers) = 0
                 THEN \* result.registers[0]: IndexError, caught by the except
                      Raise("Exception", "IndexError")
                 ELSE Return(decode_temperature(c.registers[1])))

set_temperature_correction(channel, correction, reply) ==
    IF ~ValidChannel(channel)
    THEN Invocation("set_temperature_correction", channel, correction, NotCalled,
                    Raise("ValueError", "channel"))
    ELSE IF ~ValidCorrection(correction)
    THEN Invocation("set_temperature_correction", channel, correction, NotCalled,
                    Raise("ValueError", "correction"))
    ELSE LET raw_correction == encode_temperature(correction)
             correction_register == CorrectionRegister(channel)
             c == Call(WriteTx(correction_register, raw_correction), reply)
         IN  Invocation("set_temperature_correction", channel, correction, c,
                 IF c.outcome = "ok" THEN Return(None)
                 ELSE Raise("Exception", c.outcome))

read_temperature_corrections(reply) ==
    LET c == Call(ReadTx(8, 8), reply)
    IN  Invocation("read_temperature_corrections", 0, FZero, c,
            IF c.outcome = "ok" THEN Return(DecodeAll(c.registers))
            ELSE Raise("Exception", c.outcome))

\* connect(): what = "ctor_raises" (ModbusClient(...) raises, self.client keeps
\* its value), "connect_raises", "False" or "True" (self.client.connect()).
\* The handle self.client named before is dropped without close(): its port
\* stays open unless the runtime reclaims (reclaimed) the dropped object.
connect(what, reclaimed) ==
    IF what = "ctor_raises"
    THEN [client |-> client, portOpen |-> portOpen, orphans |-> orphans,
          ret |-> FALSE]
    ELSE [client |-> "ModbusClient", portOpen |-> (what = "True"),
          orphans |-> IF Connected /\ ~reclaimed THEN orphans + 1 ELSE orphans,
          ret |-> (what = "True")]

\* disconnect(): if self.client: self.client.close()
disconnect_without_close == portOpen
disconnect == IF client # "None" THEN FALSE ELSE portOpen

(***************************************************************************)
(* Spec: one client instance, constructed with any address, driven by a    *)
(* caller that invokes its methods in any order with any arguments.        *)
(***************************************************************************)
AddressSamples == {0, 1, 247, 248}
Channels == {-1, 0, 3, 7, 8}
\* corrections, in tenths of a degree: the float passed is t / 10.0
CorrectionTenths == {-3277, -3276, 15, 3276, 3277}
CorrectionFloat == [t \in CorrectionTenths |-> FDiv10(t)]

CodecIdle ==
    /\ codecArg = [kind |-> "none", v |-> 0]
    /\ codecRes = [kind |-> "none"]

\* R4DCB08Client.__init__
Init ==
    /\ address \in AddressSamples
    /\ client = "None"
    /\ portOpen = FALSE
    /\ orphans = 0
    /\ txCount = 0
    /\ validConn = 0
    /\ txConn = 0
    /\ last = NoOp
    /\ CodecIdle
    /\ MainIdle

\* One invocation of a register operation: its record is kept and the
\* transactions it issued are counted.
Invoke(inv) ==
    /\ txCount + inv.ntx <= MaxTx
    /\ last' = inv
    /\ txCount' = txCount + inv.ntx
    /\ validConn' = validConn +
           (IF Conn(inv.pre) /\ inv.result.kind # "ValueError" THEN 1 ELSE 0)
    /\ txConn' = txConn + (IF Conn(inv.pre) THEN inv.ntx ELSE 0)
    /\ UNCHANGED <<address, client, portOpen, orphans>>

Connect ==
    \E what \in {"ctor_raises", "connect_raises", "False", "True"},
       reclaimed \in BOOLEAN :
        LET r == connect(what, reclaimed)
        IN  /\ r.orphans <= MaxOrphans
            /\ client' = r.client
            /\ portOpen' = r.portOpen
            /\ orphans' = r.orphans
            /\ last' = Invocation("connect", 0, FZero, NotCalled, Return(r.ret))
            /\ UNCHANGED <<address, txCount, validConn, txConn, codecVars, mainVars>>

Disconnect ==
    /\ portOpen' = disconnect
    /\ last' = Invocation("disconnect", 0, FZero, NotCalled, Return(None))
    /\ UNCHANGED <<address, client, orphans, txCount, validConn, txConn,
                   codecVars, mainVars>>

ReadAllTemperatures ==
    \E reply \in ReadReplies(8) :
        /\ Invoke(read_all_temperatures(reply))
        /\ UNCHANGED <<codecVars, mainVars>>

ReadSingleTemperature ==
    \E channel \in Channels : \E reply \in ReadReplies(1) :
        /\ Invoke(read_single_temperature(channel, reply))
        /\ UNCHANGED <<codecVars, mainVars>>

SetTemperatureCorrection ==
    \E channel \in Channels, t \in CorrectionTenths : \E reply \in WriteReplies :
        /\ Invoke(set_temperature_correction(channel, CorrectionFloat[t], reply))
        /\ UNCHANGED <<codecVars, mainVars>>

ReadTemperatureCorrections ==
    \E reply \in ReadReplies(8) :
        /\ Invoke(read_temperature_corrections(reply))
        /\ UNCHANGED <<codecVars, mainVars>>

Next ==
    \/ Connect
    \/ Disconnect
    \/ ReadAllTemperatures
    \/ ReadSingleTemperature
    \/ SetTemperatureCorrection
    \/ ReadTemperatureCorrections

Spec == Init /\ [][Next]_vars

(***************************************************************************)
(* SpecMain: one run of main() of r4dcb08_cli.py with any command line,    *)
(* or of main() of modbus_py.py.                                           *)
(***************************************************************************)
Commands == {"read-all", "read-channel", "set-correction", "read-corrections"}

InitMain ==
    /\ pc = "start"
    /\ args \in [script : {"cli"}, command : Commands \cup {"none"},
                  address : AddressSamples, channel : Channels,
                  correction : CorrectionTenths]
               \cup [script : {"example"}, command : {"none"}, address : {1},
                     channel : {0}, correction : {0}]
    /\ exitCode = -1
    /\ ClientIdle
    /\ CodecIdle

\* Where control goes when the try body of main() is left: its finally clause.
AfterTryWithoutFinally == "done"
AfterTry == "finally"

\* parser.parse_args() and the checks before the client is created.
MainParse ==
    /\ pc = "start"
    /\ args.script = "cli"
    /\ IF args.command \in {"read-channel", "set-correction"}
          /\ args.channel \notin 0..7
       THEN \* argparse: choices=range(8), parser.error() exits with 2
            /\ exitCode' = 2
            /\ pc' = "done"
            /\ UNCHANGED address
       ELSE IF args.command = "none"
       THEN /\ exitCode' = 1
            /\ pc' = "done"
            /\ UNCHANGED address
       ELSE IF ~(1 <= args.address /\ args.address <= 247)
       THEN /\ exitCode' = 1
            /\ pc' = "done"
            /\ UNCHANGED address
       ELSE /\ address' = args.address
            /\ pc' = "connect"
            /\ UNCHANGED exitCode
    /\ UNCHANGED <<client, portOpen, orphans, txCount, validConn, txConn, last,
                   args, codecVars>>

\* if not client.connect(): ... return 1
MainConnect ==
    /\ pc = "connect"
    /\ \E what \in {"ctor_raises", "connect_raises", "False", "True"} :
        LET r == connect(what, FALSE)
        IN  /\ client' = r.client
            /\ portOpen' = r.portOpen
            /\ orphans' = r.orphans
            /\ last' = Invocation("connect", 0, FZero, NotCalled, Return(r.ret))
            /\ pc' = IF r.ret THEN "command" ELSE "done"
            /\ exitCode' = IF r.ret THEN exitCode ELSE 1
    /\ UNCHANGED <<address, txCount, validConn, txConn, args, codecVars>>

\* The try body: cmd_read_all / cmd_read_channel / cmd_set_correction /
\* cmd_read_corrections, each returning 1 on any Exception and 0 otherwise.
MainCommand ==
    /\ pc = "command"
    /\ \E reply \in IF args.command = "set-correction" THEN WriteReplies
                     ELSE IF args.command = "read-channel" THEN ReadReplies(1)
                     ELSE ReadReplies(8) :
        LET inv == CASE args.command = "read-all" -> read_all_temperatures(reply)
                     [] args.command = "read-channel" ->
                            read_single_temperature(args.channel, reply)
                     [] args.command = "set-correction" ->
                            set_temperature_correction(args.channel,
                                CorrectionFloat[args.correction], reply)
                     [] args.command = "read-corrections" ->
                            read_temperature_corrections(reply)
        IN  /\ Invoke(inv)
            /\ exitCode' = IF inv.result.kind = "return" THEN 0 ELSE 1
    /\ pc' = AfterTry
    /\ UNCHANGED <<args, codecVars>>

\* An exception that is no Exception (KeyboardInterrupt) leaves the try body.
MainInterrupt ==
    /\ pc = "command"
    /\ pc' = AfterTry
    /\ UNCHANGED <<clientVars, args, exitCode, codecVars>>

\* finally: client.disconnect()
MainFinally ==
    /\ pc = "finally"
    /\ portOpen' = disconnect
    /\ pc' = "done"
    /\ UNCHANGED <<address, client, orphans, txCount, validConn, txConn, last,
                   args, exitCode, codecVars>>

\* modbus_py.main(): client = ModbusClient(...); if not client.connect(): return
ExampleConnect ==
    /\ pc = "start"
    /\ args.script = "example"
    /\ \E what \in {"ctor_raises", "connect_raises", "False", "True"} :
        /\ client' = IF what = "ctor_raises" THEN "None" ELSE "ModbusClient"
        /\ portOpen' = (what = "True")
        /\ pc' = IF what = "True" THEN "ex_try" ELSE "done"
    /\ UNCHANGED <<address, orphans, txCount, validConn, txConn, last, args,
                   exitCode, codecVars>>

\* The try body of modbus_py.main(): one read of the 8 temperature registers of
\* device 1, printed; except Exception prints the error.
ExampleRead ==
    /\ pc = "ex_try"
    /\ \E reply \in ReadReplies(8) :
        LET c == Call([ReadTx(0, 8) EXCEPT !.dev = 1], reply)
        IN  Invoke(Invocation("example_read", 0, FZero, c,
                IF c.outcome = "ok"
                THEN Return([i \in 1..Len(c.registers) |->
                                decode_temperature_example(c.registers[i])])
                ELSE Raise("Exception", c.outcome)))
    /\ pc' = "ex_finally"
    /\ UNCHANGED <<args, exitCode, codecVars>>

\* finally: client.close()
ExampleFinally ==
    /\ pc = "ex_finally"
    /\ portOpen' = FALSE
    /\ pc' = "done"
    /\ UNCHANGED <<address, client, orphans, txCount, validConn, txConn, last,
                   args, exitCode, codecVars>>

NextMain ==
    \/ MainParse
    \/ MainConnect
    \/ MainCommand
    \/ MainInterrupt
    \/ MainFinally
    \/ ExampleConnect
    \/ ExampleRead
    \/ ExampleFinally

SpecMain == InitMain /\ [][NextMain]_vars

(***************************************************************************)
(* Properties.                                                             *)
(***************************************************************************)
RegisterOps ==
    {"read_all_temperatures", "read_single_temperature",
     "read_temperature_corrections", "set_temperature_correction"}

\* x is t / 10.0 for a t outside -3276..3276, i.e. outside [-327.6, 327.6]
CorrectionOutOfRange(x) ==
    \E t \in CorrectionTenths : x = CorrectionFloat[t] /\ (t < -3276 \/ t > 3276)

ChannelOutOfRange(inv) ==
    /\ inv.op \in {"read_single_temperature", "set_temperature_correction"}
    /\ inv.channel \notin 0..7

ArgumentsValid(inv) ==
    /\ ~ChannelOutOfRange(inv)
    /\ inv.op = "set_temperature_correction" => ~CorrectionOutOfRange(inv.correction)

\* The value the codec is specified to decode a register to.
Decoded(raw) ==
    IF raw = 32768 THEN None
    ELSE IF raw <= 32767 THEN FDiv10(raw) ELSE FDiv10(raw - 65536)

\* C1: a register operation invoked (with valid arguments) on a Disconnected
\* client fails with a failure of its own kind, which is neither a return nor
\* the kind a transport error is reported with (the code reports those as
\* Exception), and hands nothing to the transport.
C1_NotConnectedFailsWithoutTransport ==
    (last.op \in RegisterOps /\ ~Conn(last.pre) /\ ArgumentsValid(last))
        => /\ last.ntx = 0
           /\ last.result.kind \notin {"return", "Exception"}

\* C2: a channel outside 0..7 (read_single_temperature,
\* set_temperature_correction) or a correction outside [-327.6, 327.6]
\* (set_temperature_correction) fails with ValueError, the code's
\* InvalidArgument, and no transaction is handed to the transport, whatever the
\* state of the client.
C2_InvalidArgumentBeforeTransport ==
    (\/ ChannelOutOfRange(last)
     \/ /\ last.op = "set_temperature_correction"
        /\ CorrectionOutOfRange(last.correction))
        => /\ last.result.kind = "ValueError"
           /\ last.ntx = 0
           /\ last.tx = NoTx

C2_Witness ==
    /\ last.op = "set_temperature_correction"
    /\ last.channel = 0
    /\ last.correction = FDiv10(3277)
    /\ Conn(last.pre)
    /\ last.result.kind = "ValueError"
    /\ txCount = 1

\* C3: for every t with -3276 <= t <= 3276, decode_temperature of
\* encode_temperature(t / 10.0) is t / 10.0 again; the register encoded is t
\* modulo 2^16, a 16-bit value that is never the sentinel 0x8000
\* (encode(327.6) = 3276, encode(-327.6) = 62260).
C3_RoundTrip ==
    (codecRes.kind = "encoded" /\ -3276 <= codecArg.v /\ codecArg.v <= 3276)
        => /\ codecRes.raw \in Registers
           /\ codecRes.raw # 32768
           /\ codecRes.raw = (codecArg.v + 65536) % 65536
           /\ codecRes.back = codecRes.x
           /\ codecRes.back # None

C3_Witness ==
    /\ codecRes.kind = "encoded"
    /\ codecArg.v = -3276
    /\ codecRes.raw = 62260
    /\ codecRes.back = FDiv10(-3276)

\* C4: decode_temperature(raw) is None exactly for raw = 0x8000, raw / 10 for
\* raw <= 32767 and (raw - 65536) / 10 for raw > 32768, a float that times ten
\* truncates to the signed reading (decode(32767) = 3276.7, decode(65535) =
\* -0.1); the example script's decode_temperature returns the same value for
\* every raw register.
C4_DecodeTotal ==
    codecRes.kind = "decoded"
        => LET raw == codecArg.v
               signed == IF raw > 32767 THEN raw - 65536 ELSE raw
           IN  /\ (codecRes.value = None) <=> (raw = 32768)
               /\ codecRes.value = Decoded(raw)
               /\ raw # 32768 => FTrunc(FMul10(codecRes.value)) = signed
               /\ raw = 32767 => codecRes.value = FDiv10(32767)
               /\ raw = 65535 => codecRes.value = FDiv10(-1)
               /\ codecRes.example = codecRes.value

C4_Witness ==
    /\ codecRes.kind = "decoded"
    /\ codecArg.v = 32768
    /\ codecRes.value = None
    /\ codecRes.example = None

\* C5: every invocation of a register operation that passes validation on a
\* Connected client hands exactly one transaction to the transport, whatever
\* the transport answers; so the transactions issued by such invocations number
\* as many as the invocations.
C5_OneTransactionPerOperation ==
    /\ txConn = validConn
    /\ (last.op \in RegisterOps /\ Conn(last.pre) /\ ArgumentsValid(last))
           => last.ntx = 1 /\ last.tx.fn # "none"

C5_Witness ==
    /\ txConn = 2
    /\ validConn = 2
    /\ Conn(last.pre)
    /\ last.op = "read_all_temperatures"
    /\ last.reply.outcome = "isError"

C7_DisconnectIdempotent ==
    [][Disconnect =>
        /\ ~Connected'
        /\ last'.result.kind = "return"
        /\ ~Connected =>
              UNCHANGED <<address, client, portOpen, orphans, txCount, validConn,
                          txConn>>]_vars

C7_Witness ==
    /\ last.op = "disconnect"
    /\ last.pre = [client |-> "ModbusClient", portOpen |-> FALSE]
    /\ ~Connected
    /\ txCount > 0

\* C8: set_temperature_correction with a channel in 0..7 and a correction
\* t / 10.0 in [-327.6, 327.6] on a Connected client hands the transport one
\* write_register of address 8 + channel (in 8..15) and value t modulo 2^16,
\* addressed to the client's device address, and returns when the transport
\* acknowledges (channel 3, 1.5: address 11, value 15).
C8_WriteCorrectionTransaction ==
    (last.op = "set_temperature_correction" /\ Conn(last.pre)
        /\ ArgumentsValid(last))
        => /\ last.ntx = 1
           /\ last.tx.fn = "write_register"
           /\ last.tx.addr = 8 + last.channel
           /\ last.tx.addr \in 8..15
           /\ last.tx.value \in Registers
           /\ \A t \in CorrectionTenths :
                  last.correction = CorrectionFloat[t]
                      => last.tx.value = (t + 65536) % 65536
           /\ last.tx.dev = address
           /\ last.reply.outcome = "ok" => last.result.kind = "return"

C8_Witness ==
    /\ last.op = "set_temperature_correction"
    /\ Conn(last.pre)
    /\ last.channel = 3
    /\ last.correction = FDiv10(15)
    /\ last.tx.addr = 11
    /\ last.tx.value = 15
    /\ last.result.kind = "return"

\* C9: read_all_temperatures and read_temperature_corrections raise, returning
\* no value, when the transport answers with an error or raises; when it
\* answers with registers they return one decoded value per register, in the
\* registers' order (scenario A decodes to 25.0, None, -5.0, 0.0, ...).
C9_AllOrNothingRead ==
    (last.op \in {"read_all_temperatures", "read_temperature_corrections"}
        /\ last.ntx > 0)
        => /\ last.reply.outcome # "ok" =>
                 last.result.kind = "Exception" /\ last.result.value = None
           /\ last.reply.outcome = "ok" =>
                 /\ last.result.kind = "return"
                 /\ Len(last.result.value) = Len(last.reply.registers)
                 /\ \A i \in 1..Len(last.reply.registers) :
                        last.result.value[i] = Decoded(last.reply.registers[i])
                 /\ last.reply.registers = ScenarioA =>
                        last.result.value =
                            <<FDiv10(250), None, FDiv10(-50), FZero, FZero, FZero,
                              FZero, FZero>>

C9_Witness ==
    /\ last.op = "read_all_temperatures"
    /\ last.reply.outcome = "ok"
    /\ last.reply.registers = ScenarioA
    /\ last.result.value[2] = None
    /\ last.result.value[3] = FDiv10(-50)

\* C10: every transaction handed to the transport carries a device address in
\* 1..247, the one the client was constructed with.
C10_DeviceAddressInRange ==
    last.tx.fn # "none" => last.tx.dev \in 1..247 /\ last.tx.dev = address

====
